---- MODULE Spec2Model ----
(***************************************************************************)
(* A model of the ChatBot retrieval-augmented answer pipeline:             *)
(*   - ArticleManager.process_csv_file / process_csv_files  (ingestion)    *)
(*   - ChatManager.search_and_respond and its helpers       (responder)    *)
(*   - ChatManager.add_to_knowledge_base                    (incremental)  *)
(* The Vector Store (Pinecone index), the Embedding Provider and the       *)
(* Answer Model are external services: their replies, and their failures,  *)
(* are chosen nondeterministically by the actions.                         *)
(*                                                                         *)
(* Text is a sequence of one-character strings, so that joining cells and  *)
(* stripping whitespace are computed, not assumed.  Similarity scores are  *)
(* integers in hundredths (95 is 0.95); a confidence is the exact rational *)
(* [num, den] in the same unit.                                            *)
(***************************************************************************)
EXTENDS Integers, Sequences, FiniteSets, TLC

VARIABLES
    store,      \* the Vector Store: id -> [values, metadata]
    hashSeed,   \* the running interpreter's string-hash seed (PYTHONHASHSEED)
    history,    \* per CSV file: "never" processed, processed but only
                \* "partly" stored, or "stored" completely by some run
    call        \* the call the caller is looking at: its arguments, what the
                \* external services did during it and its outcome; NoCall
                \* while the caller is idle

VARIABLES
    environ,    \* os.environ of the process: credential -> None or a string
    dotenv,     \* the .env file: credential -> None or a string
    pc,         \* where the process is: "start", "exited" (sys.exit(1)),
                \* "launched" (chat.py is to run), "stopped" (st.stop()) or
                \* "ready" (the chat interface is up)
    entry,      \* the script the process was started with
    chatManager,\* st.session_state.chat_manager: None or the ChatManager
    console,    \* what the last script run reported (print, st.error)
    issued      \* the requests sent to the external services during startup

bootVars == <<environ, dotenv, pc, entry, chatManager, console, issued>>

vars == <<store, hashSeed, history, call, environ, dotenv, pc, entry,
          chatManager, console, issued>>

(***************************************************************************)
(* Bounds: NumFiles CSV files in the data directory, top_k in 1..MaxTopK,   *)
(* NumSeeds string-hash seeds an interpreter may start with.               *)
(***************************************************************************)
NumFiles == 2
MaxTopK == 3
NumSeeds == 2

Files == 1..NumFiles
TopKs == 1..MaxTopK
Seeds == 0..(NumSeeds - 1)

Min(a, b) == IF a <= b THEN a ELSE b

(***************************************************************************)
(* Python values                                                           *)
(***************************************************************************)
None == [kind |-> "None"]

\* pandas' missing-cell marker (what pd.notna rejects)
NaN == <<"N", "a", "N">>

Whitespace == {" "}

RECURSIVE LStrip(_)
LStrip(s) ==
    IF s # <<>> /\ Head(s) \in Whitespace THEN LStrip(Tail(s)) ELSE s

RECURSIVE RStrip(_)
RStrip(s) ==
    IF s # <<>> /\ s[Len(s)] \in Whitespace
    THEN RStrip(SubSeq(s, 1, Len(s) - 1)) ELSE s

\* str.strip()
Strip(s) == RStrip(LStrip(s))

\* " ".join(parts)
RECURSIVE JoinSpace(_)
JoinSpace(parts) ==
    IF parts = <<>> THEN <<>>
    ELSE IF Len(parts) = 1 THEN parts[1]
    ELSE parts[1] \o <<" ">> \o JoinSpace(Tail(parts))

\* {**base, **over}: the later mapping wins on a shared key
DictMerge(base, over) == over @@ base

\* {k: v for k, v in d.items() if k != key}
DictWithout(d, key) == [k \in (DOMAIN d) \ {key} |-> d[k]]

\* d.get(key, default)
DictGet(d, key, default) == IF key \in DOMAIN d THEN d[key] ELSE default

(***************************************************************************)
(* The data directory.  File 1 has two rows with text and one row whose    *)
(* every cell is missing; file 2 has a column named like a metadata key    *)
(* and a row of whitespace-only cells; further files have a single row.    *)
(***************************************************************************)
FileName(f) == CASE f = 1 -> "a.csv" [] f = 2 -> "b.csv" [] OTHER -> "c.csv"

FilePath(f) == <<"data", FileName(f)>>

FileColumns(f) ==
    CASE f = 1 -> <<"title", "body">>
      [] f = 2 -> <<"text", "note">>
      [] OTHER -> <<"title">>

FileRows(f) ==
    CASE f = 1 -> << <<<<"a">>, <<"b">>>>, <<NaN, NaN>>, <<<<"c">>, NaN>> >>
      [] f = 2 -> << <<<<"d">>, <<"e">>>>, <<<<" ">>, <<" ">>>> >>
      [] OTHER -> << <<<<"g">>>> >>

\* What pd.read_csv meets on disk: a well-formed file, a header without
\* rows, a zero-byte file (EmptyDataError), malformed tabular structure
\* (ParserError), or bytes that do not decode (UnicodeDecodeError).
DiskKinds == {"ok", "headeronly", "zero", "malformed", "undecodable"}

\* What the Embedding Provider and the Vector Store do for one row.
RowFaults == {"none", "embed", "upsert"}

\* a logger call
Ev(level, what, file, row) ==
    [level |-> level, what |-> what, file |-> file, row |-> row]

\* a request issued to an external service; about names the row or the text
Req(service, about) == [service |-> service, about |-> about]

\* Path(file_path).name
PathName(path) == path[Len(path)]

\* pd.notna(row[col])
NotNa(cell) == cell # NaN

\* the columns of a row that are not missing, in column order
RECURSIVE PresentCols(_, _, _)
PresentCols(columns, row, i) ==
    IF i > Len(columns) THEN <<>>
    ELSE (IF NotNa(row[i]) THEN <<i>> ELSE <<>>) \o PresentCols(columns, row, i + 1)

\* " ".join(str(row[col]) for col in columns if pd.notna(row[col]))
RowText(columns, row) ==
    LET present == PresentCols(columns, row, 1)
    IN  JoinSpace([k \in 1..Len(present) |-> row[present[k]]])

\* {col: str(row[col]) for col in columns if pd.notna(row[col])}
RowColumns(columns, row) ==
    LET present == {i \in 1..Len(columns) : NotNa(row[i])}
    IN  [c \in {columns[i] : i \in present} |->
            row[CHOOSE i \in present : columns[i] = c]]

\* the metadata mapping passed to upsert_embedding
RowMetadata(file_path, index, columns, row) ==
    DictMerge([text |-> RowText(columns, row),
               source_file |-> PathName(file_path),
               row_index |-> index],
              RowColumns(columns, row))

\* EmbedManager.generate_embedding: the vector stands for the text embedded
Embed(text) == [embedding_of |-> text]

\* PineconeManager.upsert_embedding: the record is stored under the id
\* (source file name, row index), replacing a record with that id
UpsertEmbedding(st, vector, metadata) ==
    LET id == <<metadata.source_file, metadata.row_index>>
        rec == [values |-> vector, metadata |-> metadata]
    IN  (id :> rec) @@ st

\* The body of the row loop for one row; acc is [store, log, requests] so
\* far.  An embedding is requested, and if it arrives an upsert.
RowRequests(file_path, index, fault) ==
    IF fault = "embed"
    THEN <<Req("embed", <<file_path, index>>)>>
    ELSE <<Req("embed", <<file_path, index>>), Req("upsert", <<file_path, index>>)>>

ProcessRowCounter(acc, file_path, index, columns, row, fault) ==
    IF Strip(RowText(columns, row)) = <<>>
    THEN [acc EXCEPT !.log = Append(@, Ev("warning", "no_text", file_path, index))]
    ELSE IF fault # "none"
    THEN [acc EXCEPT !.log = Append(@, Ev("error", fault, file_path, index)),
                     !.requests = @ \o RowRequests(file_path, index, fault)]
    ELSE [store |-> UpsertEmbedding(acc.store, Embed(RowText(columns, row)),
                        RowMetadata(file_path, Cardinality(DOMAIN acc.store),
                                    columns, row)),
          log |-> Append(acc.log, Ev("info", "processed", file_path, index)),
          requests |-> acc.requests \o RowRequests(file_path, index, fault)]

ProcessRowNoStrip(acc, file_path, index, columns, row, fault) ==
    IF RowText(columns, row) = <<>>
    THEN [acc EXCEPT !.log = Append(@, Ev("warning", "no_text", file_path, index))]
    ELSE IF fault # "none"
    THEN [acc EXCEPT !.log = Append(@, Ev("error", fault, file_path, index)),
                     !.requests = @ \o RowRequests(file_path, index, fault)]
    ELSE [store |-> UpsertEmbedding(acc.store, Embed(RowText(columns, row)),
                        RowMetadata(file_path, index, columns, row)),
          log |-> Append(acc.log, Ev("info", "processed", file_path, index)),
          requests |-> acc.requests \o RowRequests(file_path, index, fault)]

ProcessRow(acc, file_path, index, columns, row, fault) ==
    IF Strip(RowText(columns, row)) = <<>>
    THEN [acc EXCEPT !.log = Append(@, Ev("warning", "no_text", file_path, index))]
    ELSE IF fault # "none"
    THEN [acc EXCEPT !.log = Append(@, Ev("error", fault, file_path, index)),
                     !.requests = @ \o RowRequests(file_path, index, fault)]
    ELSE [store |-> UpsertEmbedding(acc.store, Embed(RowText(columns, row)),
                        RowMetadata(file_path, index, columns, row)),
          log |-> Append(acc.log, Ev("info", "processed", file_path, index)),
          requests |-> acc.requests \o RowRequests(file_path, index, fault)]

\* for index, row in df.iterrows(): rows i..Len(rows), index = i - 1
RECURSIVE ProcessRowsAbort(_, _, _, _, _, _)
ProcessRowsAbort(acc, file_path, columns, rows, faults, i) ==
    IF i > Len(rows) \/ (acc.log # <<>> /\ acc.log[Len(acc.log)].level = "error")
    THEN acc
    ELSE ProcessRowsAbort(
             ProcessRow(acc, file_path, i - 1, columns, rows[i], faults[i]),
             file_path, columns, rows, faults, i + 1)

RECURSIVE ProcessRows(_, _, _, _, _, _)
ProcessRows(acc, file_path, columns, rows, faults, i) ==
    IF i > Len(rows) THEN acc
    ELSE ProcessRows(
             ProcessRow(acc, file_path, i - 1, columns, rows[i], faults[i]),
             file_path, columns, rows, faults, i + 1)

\* The except clauses of process_csv_file for a file pd.read_csv cannot
\* read: EmptyDataError and ParserError are logged, any other exception is
\* logged and raised again.
ReadFailureAllRaise(st, f, kind) ==
    [store |-> st, requests |-> <<>>, value |-> None, outcome |-> "raised",
     log |-> <<Ev("info", "reading", FilePath(f), -1),
               Ev("error", "processing", FilePath(f), -1)>>]

ReadFailure(st, f, kind) ==
    [store |-> st, requests |-> <<>>, value |-> None,
     outcome |-> IF kind \in {"zero", "malformed"} THEN "returned" ELSE "raised",
     log |-> <<Ev("info", "reading", FilePath(f), -1),
               Ev("error",
                  CASE kind = "zero" -> "empty_data"
                    [] kind = "malformed" -> "parser"
                    [] OTHER -> "processing",
                  FilePath(f), -1)>>]

\* ArticleManager.process_csv_file on file f, whose condition on disk is
\* kind: [store, log, requests, outcome, value]
RunProcessCsvFile(st, f, kind, faults) ==
    CASE kind \in {"zero", "malformed", "undecodable"} ->
           ReadFailure(st, f, kind)
      [] kind = "headeronly" ->
           [store |-> st, requests |-> <<>>, outcome |-> "returned",
            value |-> None,
            log |-> <<Ev("info", "reading", FilePath(f), -1),
                      Ev("warning", "empty", FilePath(f), -1)>>]
      [] OTHER ->
           [outcome |-> "returned", value |-> None] @@
           ProcessRows([store |-> st, requests |-> <<>>,
                        log |-> <<Ev("info", "reading", FilePath(f), -1),
                                  Ev("info", "columns", FilePath(f), -1)>>],
                       FilePath(f), FileColumns(f), FileRows(f), faults, 1)

\* one turn of "for csv_file in csv_files": acc is [store, log, requests,
\* outcome] so far, one is what process_csv_file did
AfterFile(acc, one) ==
    [store |-> one.store, outcome |-> one.outcome,
     log |-> acc.log \o one.log, requests |-> acc.requests \o one.requests]

\* for csv_file in csv_files: self.process_csv_file(str(csv_file))
RECURSIVE ProcessListing(_, _, _, _, _)
ProcessListing(acc, listing, kinds, faults, i) ==
    IF i > Len(listing) \/ acc.outcome = "raised" THEN acc
    ELSE ProcessListing(
             AfterFile([acc EXCEPT !.log = Append(@, Ev("info", "processing_file",
                                                        FilePath(listing[i]), -1))],
                       RunProcessCsvFile(acc.store, listing[i], kinds[listing[i]],
                                         faults[listing[i]])),
             listing, kinds, faults, i + 1)

\* the except clause of process_csv_files: log, then raise
DirectoryOutcome(done) ==
    [store |-> done.store, outcome |-> done.outcome, value |-> None,
     requests |-> done.requests,
     log |-> IF done.outcome = "raised"
             THEN Append(done.log, Ev("error", "directory", <<"data">>, -1))
             ELSE done.log]

\* ArticleManager.process_csv_files; dir is "missing" or "present", listing
\* is what directory.glob("*.csv") yields
RunProcessCsvFiles(st, dir, listing, kinds, faults) ==
    IF dir = "missing"
    THEN [store |-> st, outcome |-> "returned", value |-> None,
          requests |-> <<>>,
          log |-> <<Ev("error", "no_directory", <<"data">>, -1)>>]
    ELSE IF listing = <<>>
    THEN [store |-> st, outcome |-> "returned", value |-> None,
          requests |-> <<>>,
          log |-> <<Ev("warning", "no_csv_files", <<"data">>, -1)>>]
    ELSE DirectoryOutcome(
             ProcessListing([store |-> st, outcome |-> "returned",
                             requests |-> <<>>,
                             log |-> <<Ev("info", "found_files", <<"data">>,
                                          Len(listing))>>],
                            listing, kinds, faults, 1))

\* ArticleManager.get_article_count
GetArticleCount(st) == Cardinality(DOMAIN st)

(***************************************************************************)
(* ChatManager                                                             *)
(***************************************************************************)
Queries == {<<"q">>}

\* an optional str argument is None or a wrapped string
Str(chars) == [kind |-> "str", chars |-> chars]

\* the callers of search_and_respond pass no system prompt
SystemPrompts == {None}

DefaultSystemPrompt == Str(<<"d">>)

\* texts and caller metadata handed to add_to_knowledge_base
KbInputs ==
    { [text |-> <<>>, metadata |-> None],
      [text |-> <<"x">>, metadata |-> None],
      [text |-> <<"x">>, metadata |-> [topic |-> <<"t">>, text |-> <<"o">>]] }

\* similarity scores the Vector Store may report, in hundredths
ScoreVals == {-50, 82, 95}

\* what may fail during search_and_respond / add_to_knowledge_base
SearchFaults == {"none", "embed", "query", "generate"}
AddFaults == {"none", "embed", "upsert"}

HashMod == 2^8

Ord(c) == CASE c = "x" -> 120 [] c = "o" -> 111 [] c = " " -> 32 [] OTHER -> 97

\* hash(text) for a str: seeded per interpreter, 0 for the empty string
RECURSIVE HashFrom(_, _)
HashFrom(h, text) ==
    IF text = <<>> THEN h
    ELSE HashFrom((h * 31 + Ord(Head(text))) % HashMod, Tail(text))

PyHash(seed, text) == IF text = <<>> THEN 0 ELSE HashFrom(seed, text)

\* str(n) of an int: the decimal string, one per integer
IntStr(n) == <<"int", n>>

\* index.upsert(vectors=[{id, values, metadata}])
IndexUpsert(st, id, values, metadata) ==
    (id :> [values |-> values, metadata |-> metadata]) @@ st

\* index.query(vector, top_k, include_metadata=True).matches: the replies
\* the Vector Store may give, min(top_k, count) distinct records in
\* descending order of similarity
IndexQuery(st, top_k) ==
    LET n == Min(top_k, Cardinality(DOMAIN st))
        ranked == {ids \in [1..n -> DOMAIN st] :
                      \A i, j \in 1..n : i # j => ids[i] # ids[j]}
        scored == {sc \in [1..n -> ScoreVals] :
                      \A i \in 1..n : i < n => sc[i] >= sc[i + 1]}
    IN  { [i \in 1..n |-> [id |-> ids[i], score |-> sc[i],
                           metadata |-> st[ids[i]].metadata]] :
            ids \in ranked, sc \in scored }

\* ChatManager.engineer_prompt: the prompt's parts in their fixed order
RECURSIVE FormatContextDense(_, _)
FormatContextDense(context, i) ==
    IF i > Len(context) THEN <<>>
    ELSE LET doc_text == DictGet(context[i].metadata, "text", <<>>)
             shown == {j \in 1..i :
                          DictGet(context[j].metadata, "text", <<>>) # <<>>}
         IN  (IF doc_text # <<>>
              THEN <<[document |-> Cardinality(shown), text |-> doc_text]>>
              ELSE <<>>)
             \o FormatContextDense(context, i + 1)

RECURSIVE FormatContext(_, _)
FormatContext(context, i) ==
    IF i > Len(context) THEN <<>>
    ELSE LET doc_text == DictGet(context[i].metadata, "text", <<>>)
         IN  (IF doc_text # <<>>
              THEN <<[document |-> i, text |-> doc_text]>> ELSE <<>>)
             \o FormatContext(context, i + 1)

EngineerPrompt(question, context, system_prompt) ==
    [system |-> IF system_prompt = None THEN DefaultSystemPrompt
                ELSE system_prompt,
     context |-> FormatContext(context, 1),
     question |-> question,
     instructions |-> "fixed"]

\* model.generate_content(prompt).text: the Answer Model's reply to a prompt
GenerateContent(prompt) == [reply_to |-> prompt]

\* ChatManager.generate_response: [raised, text]
GenerateResponseCanned(question, context, system_prompt, fault) ==
    IF fault = "generate"
    THEN [raised |-> FALSE, text |-> [reply_to |-> "canned"]]
    ELSE [raised |-> FALSE,
          text |-> GenerateContent(EngineerPrompt(question, context, system_prompt))]

GenerateResponse(question, context, system_prompt, fault) ==
    IF fault = "generate"
    THEN [raised |-> TRUE, text |-> None]
    ELSE [raised |-> FALSE,
          text |-> GenerateContent(EngineerPrompt(question, context, system_prompt))]

\* one entry of sources
SourceKeepText(doc) ==
    [text |-> DictGet(doc.metadata, "text", <<>>),
     score |-> doc.score,
     metadata |-> doc.metadata]

Source(doc) ==
    [text |-> DictGet(doc.metadata, "text", <<>>),
     score |-> doc.score,
     metadata |-> DictWithout(doc.metadata, "text")]

\* sources = [...]: one source per match, in the order of the matches
RECURSIVE BuildSourcesSkipEmpty(_)
BuildSourcesSkipEmpty(context) ==
    IF context = <<>> THEN <<>>
    ELSE (IF DictGet(Head(context).metadata, "text", <<>>) # <<>>
          THEN <<Source(Head(context))>> ELSE <<>>)
         \o BuildSourcesSkipEmpty(Tail(context))

BuildSources(context) == [i \in 1..Len(context) |-> Source(context[i])]

RECURSIVE SumScores(_)
SumScores(context) ==
    IF context = <<>> THEN 0 ELSE Head(context).score + SumScores(Tail(context))

\* sum(doc.score ...) / len(relevant_context) if relevant_context else 0.0
ConfidenceSmoothed(context) ==
    IF context # <<>>
    THEN [num |-> SumScores(context), den |-> Len(context) + 1]
    ELSE [num |-> 0, den |-> 1]

ConfidenceSum(context) ==
    IF context # <<>>
    THEN [num |-> SumScores(context), den |-> 1]
    ELSE [num |-> 0, den |-> 1]

Confidence(context) ==
    IF context # <<>>
    THEN [num |-> SumScores(context), den |-> Len(context)]
    ELSE [num |-> 0, den |-> 1]

\* the requests search_and_respond issues before it returns or raises
SearchRequests(query, fault) ==
    CASE fault = "embed" -> <<Req("embed", query)>>
      [] fault = "query" -> <<Req("embed", query), Req("query", query)>>
      [] OTHER -> <<Req("embed", query), Req("query", query),
                    Req("generate", query)>>

\* ChatManager.search_and_respond: [outcome, value, requests]; fault names
\* the external call that fails, matches is the Vector Store's reply.
\* The response's timestamp (the wall clock) is left out.
SearchOutcome(query, context, answer, fault) ==
    IF answer.raised
    THEN [outcome |-> "raised", value |-> None,
          requests |-> SearchRequests(query, fault)]
    ELSE [outcome |-> "returned",
          value |-> [kind |-> "ChatResponse",
                     answer |-> answer.text,
                     sources |-> BuildSources(context),
                     confidence |-> Confidence(context),
                     query |-> query],
          requests |-> SearchRequests(query, fault)]

RunSearchAndRespond(query, top_k, system_prompt, fault, matches) ==
    IF fault \in {"embed", "query"}
    THEN [outcome |-> "raised", value |-> None,
          requests |-> SearchRequests(query, fault)]
    ELSE SearchOutcome(query, matches,
                       GenerateResponse(query, matches, system_prompt, fault),
                       fault)

\* the id add_to_knowledge_base stores a text under: str(hash(text))
KbId(seed, text) == IntStr(PyHash(seed, text))

\* ChatManager.add_to_knowledge_base: [store, outcome, value, requests]
RunAddToKnowledgeBaseSilent(st, seed, text, metadata, fault) ==
    CASE fault = "embed" ->
           [store |-> st, outcome |-> "returned", value |-> None,
            requests |-> <<Req("embed", text)>>]
      [] fault = "upsert" ->
           [store |-> st, outcome |-> "returned", value |-> None,
            requests |-> <<Req("embed", text), Req("upsert", text)>>]
      [] OTHER ->
           [store |-> IndexUpsert(st, KbId(seed, text), Embed(text),
                                  DictMerge(IF metadata = None THEN <<>>
                                            ELSE metadata,
                                            [text |-> text])),
            outcome |-> "returned", value |-> None,
            requests |-> <<Req("embed", text), Req("upsert", text)>>]

RunAddToKnowledgeBase(st, seed, text, metadata, fault) ==
    CASE fault = "embed" ->
           [store |-> st, outcome |-> "raised", value |-> None,
            requests |-> <<Req("embed", text)>>]
      [] fault = "upsert" ->
           [store |-> st, outcome |-> "raised", value |-> None,
            requests |-> <<Req("embed", text), Req("upsert", text)>>]
      [] OTHER ->
           [store |-> IndexUpsert(st, KbId(seed, text), Embed(text),
                                  DictMerge(IF metadata = None THEN <<>>
                                            ELSE metadata,
                                            [text |-> text])),
            outcome |-> "returned", value |-> None,
            requests |-> <<Req("embed", text), Req("upsert", text)>>]

(***************************************************************************)
(* Startup: main.py, and chat.py up to the chat interface                  *)
(***************************************************************************)
CredVars == {"PINECONE_API_KEY", "PINECONE_ENVIRONMENT", "GEMINI_API_KEY"}

\* the values a credential may have in the environment and in the .env file
EnvValues == {None, Str(<<>>), Str(<<"k">>)}
DotenvValues == {None, Str(<<"k">>)}

\* not value: None and the empty string are falsy
Falsy(value) == IF value = None THEN TRUE ELSE value.chars = <<>>

\* os.getenv(var)
Getenv(env, var) == env[var]

\* load_dotenv(): a key of the .env file is set unless the environment
\* already holds the key
LoadDotenv(env, file) ==
    [var \in CredVars |-> IF env[var] = None THEN file[var] ELSE env[var]]

\* a line of output
Out(what, var) == [what |-> what, var |-> var]

\* missing_vars = [var for var in required_vars if not os.getenv(var)]
MissingVars(required_vars, env) ==
    SelectSeq(required_vars, LAMBDA var : Falsy(Getenv(env, var)))

\* main.validate_environment: [ok, printed]
ValidateEnvironmentUnsetOnly(env) ==
    LET required_vars ==
            <<"PINECONE_API_KEY", "PINECONE_ENVIRONMENT", "GEMINI_API_KEY">>
        missing_vars == SelectSeq(required_vars, LAMBDA var : env[var] = None)
    IN  IF missing_vars # <<>>
        THEN [ok |-> FALSE,
              printed |-> <<Out("missing_header", None)>>
                          \o [i \in 1..Len(missing_vars) |->
                                 Out("missing_var", missing_vars[i])]
                          \o <<Out("env_file_hint", None)>>]
        ELSE [ok |-> TRUE, printed |-> <<>>]

ValidateEnvironment(env) ==
    LET required_vars ==
            <<"PINECONE_API_KEY", "PINECONE_ENVIRONMENT", "GEMINI_API_KEY">>
        missing_vars == MissingVars(required_vars, env)
    IN  IF missing_vars # <<>>
        THEN [ok |-> FALSE,
              printed |-> <<Out("missing_header", None)>>
                          \o [i \in 1..Len(missing_vars) |->
                                 Out("missing_var", missing_vars[i])]
                          \o <<Out("env_file_hint", None)>>]
        ELSE [ok |-> TRUE, printed |-> <<>>]

\* main.main: [environ, console, pc]
RunMain(env, file) ==
    LET loaded == LoadDotenv(env, file)
        valid == ValidateEnvironment(loaded)
    IN  [environ |-> loaded,
         console |-> valid.printed,
         pc |-> IF valid.ok THEN "launched" ELSE "exited"]

\* what may fail while a ChatManager is constructed
InitFaults == {"none", "pinecone"}

\* ChatManager.__init__: [raised, requests]; index_exists says whether the
\* index is listed, fault names the service that fails
ChatManagerInit(env, index_exists, fault) ==
    IF fault = "pinecone"
    THEN [raised |-> TRUE,
          requests |-> {Req("vector_store", "init")}]
    ELSE [raised |-> FALSE,
          requests |-> {Req("vector_store", "init"),
                        Req("answer_model", "configure"),
                        Req("vector_store", "list_indexes"),
                        Req("vector_store", "index")}
                       \cup (IF index_exists THEN {}
                             ELSE {Req("vector_store", "create_index")})]

\* chat.initialize_chat_manager: [ok, environ, chatManager, console, requests]
InitializeChatManager(env, file, chat_manager, index_exists, fault) ==
    LET loaded == LoadDotenv(env, file)
        required_vars ==
            <<"GEMINI_API_KEY", "PINECONE_API_KEY", "PINECONE_ENVIRONMENT">>
        missing_vars == MissingVars(required_vars, loaded)
        made == ChatManagerInit(loaded, index_exists, fault)
    IN  IF missing_vars # <<>>
        THEN [ok |-> FALSE, environ |-> loaded, chatManager |-> chat_manager,
              console |-> <<Out("st_error_missing", missing_vars),
                            Out("st_info_env_file", None)>>,
              requests |-> {}]
        ELSE IF chat_manager # None
        THEN [ok |-> TRUE, environ |-> loaded, chatManager |-> chat_manager,
              console |-> <<>>, requests |-> {}]
        ELSE IF made.raised
        THEN [ok |-> FALSE, environ |-> loaded, chatManager |-> None,
              console |-> <<Out("st_error_initializing", None)>>,
              requests |-> made.requests]
        ELSE [ok |-> TRUE, environ |-> loaded,
              chatManager |-> [kind |-> "ChatManager"],
              console |-> <<>>, requests |-> made.requests]

(***************************************************************************)
(* Actions: one per entry point, taken by an idle caller and run to        *)
(* completion (the program is synchronous), and the caller's return to     *)
(* idle once it has the result or the error.                               *)
(***************************************************************************)
EmptyStore == <<>>

NoCall ==
    [op |-> "none", args |-> None, env |-> None, before |-> EmptyStore,
     prior |-> "never", outcome |-> "returned", value |-> None,
     log |-> <<>>, requests |-> <<>>]

\* rows of file f that carry text
TextRows(f) ==
    {i \in 1..Len(FileRows(f)) : Strip(RowText(FileColumns(f), FileRows(f)[i])) # <<>>}

NoFaults(f) == [i \in 1..Len(FileRows(f)) |-> "none"]

\* the faults the services may show while the rows of f are processed
FaultChoices(f, kind) ==
    IF kind = "ok"
    THEN {fl \in [1..Len(FileRows(f)) -> RowFaults] :
             \A i \in 1..Len(FileRows(f)) : i \notin TextRows(f) => fl[i] = "none"}
    ELSE {NoFaults(f)}

\* a run that read the file and stored every row that carries text
CleanRun(kind, faults) ==
    kind = "ok" /\ \A i \in DOMAIN faults : faults[i] = "none"

Idle == call.op = "none"

ProcessCsvFile ==
    /\ Idle
    /\ \E f \in Files, kind \in DiskKinds :
      \E faults \in FaultChoices(f, kind) :
        \E r \in {RunProcessCsvFile(store, f, kind, faults)} :
            /\ store' = r.store
            /\ history' = [history EXCEPT ![f] =
                              IF CleanRun(kind, faults) THEN "stored"
                              ELSE IF @ = "never" THEN "partly" ELSE @]
            /\ call' = [op |-> "process_csv_file",
                        args |-> [file |-> f, file_path |-> FilePath(f)],
                        env |-> [kind |-> kind, faults |-> faults],
                        before |-> store,
                        prior |-> history[f],
                        outcome |-> r.outcome, value |-> r.value,
                        log |-> r.log, requests |-> r.requests]
            /\ UNCHANGED <<hashSeed, bootVars>>

\* the orders directory.glob("*.csv") may list the files in
Listings ==
    {l \in [1..NumFiles -> Files] :
        \A i, j \in 1..NumFiles : i # j => l[i] # l[j]}

\* a directory run meets at most one defective file and one failing row
DirKinds ==
    {[f \in Files |-> IF f = bad THEN kind ELSE "ok"] :
        bad \in Files, kind \in DiskKinds}

DirFaults ==
    {[f \in Files |-> NoFaults(f)]} \cup
    UNION {{[f \in Files |-> [i \in 1..Len(FileRows(f)) |->
                               IF f = bf /\ i = bi THEN cause ELSE "none"]] :
              bi \in TextRows(bf), cause \in {"embed", "upsert"}} : bf \in Files}

\* the files of a listing a directory run got to
ReachedFiles(listing, log) ==
    {f \in Files :
        /\ \E i \in 1..Len(listing) : listing[i] = f
        /\ \E i \in 1..Len(log) :
              log[i].what = "processing_file" /\ log[i].file = FilePath(f)}

ProcessCsvFiles ==
    /\ Idle
    /\ \E dir \in {"missing", "present"} :
      \E listing \in (IF dir = "missing" THEN {<<>>} ELSE Listings \cup {<<>>}) :
        \E kinds \in (IF listing = <<>> THEN {[f \in Files |-> "ok"]} ELSE DirKinds) :
          \E faults \in (IF listing = <<>> THEN {[f \in Files |-> NoFaults(f)]}
                         ELSE DirFaults) :
            \E r \in {RunProcessCsvFiles(store, dir, listing, kinds, faults)} :
                /\ store' = r.store
                /\ history' =
                     [f \in Files |->
                        IF f \notin ReachedFiles(listing, r.log) THEN history[f]
                        ELSE IF CleanRun(kinds[f], faults[f]) THEN "stored"
                        ELSE IF history[f] = "never" THEN "partly"
                        ELSE history[f]]
                /\ call' = [op |-> "process_csv_files",
                            args |-> [data_dir |-> <<"data">>],
                            env |-> [dir |-> dir, listing |-> listing,
                                     kinds |-> kinds, faults |-> faults],
                            before |-> store,
                            prior |-> "never",
                            outcome |-> r.outcome, value |-> r.value,
                            log |-> r.log, requests |-> r.requests]
                /\ UNCHANGED <<hashSeed, bootVars>>

SearchAndRespond ==
    /\ Idle
    /\ \E query \in Queries, top_k \in TopKs, system_prompt \in SystemPrompts,
       fault \in SearchFaults :
      \E matches \in (IF fault \in {"embed", "query"} THEN {<<>>}
                      ELSE IndexQuery(store, top_k)) :
        \E r \in {RunSearchAndRespond(query, top_k, system_prompt, fault, matches)} :
            /\ call' = [op |-> "search_and_respond",
                        args |-> [query |-> query, top_k |-> top_k,
                                  system_prompt |-> system_prompt],
                        env |-> [fault |-> fault, matches |-> matches],
                        before |-> store,
                        prior |-> "never",
                        outcome |-> r.outcome, value |-> r.value,
                        log |-> <<>>, requests |-> r.requests]
            /\ UNCHANGED <<store, hashSeed, history, bootVars>>

AddToKnowledgeBase ==
    /\ Idle
    /\ \E input \in KbInputs, fault \in AddFaults :
        \E r \in {RunAddToKnowledgeBase(store, hashSeed, input.text,
                                         input.metadata, fault)} :
            /\ store' = r.store
            /\ call' = [op |-> "add_to_knowledge_base",
                        args |-> [text |-> input.text,
                                  metadata |-> input.metadata],
                        env |-> [fault |-> fault],
                        before |-> store,
                        prior |-> IF \E id \in DOMAIN store :
                                      store[id].metadata.text = input.text
                                  THEN "stored" ELSE "never",
                        outcome |-> r.outcome, value |-> r.value,
                        log |-> <<>>, requests |-> r.requests]
            /\ UNCHANGED <<hashSeed, history, bootVars>>

\* the process ends and a new interpreter starts: the Vector Store keeps
\* its records, the string-hash seed is drawn afresh
Restart ==
    /\ Idle
    /\ \E seed \in Seeds : hashSeed' = seed
    /\ UNCHANGED <<store, history, call, bootVars>>

\* the caller has taken the response, or caught the error
Return ==
    /\ ~Idle
    /\ call' = NoCall
    /\ UNCHANGED <<store, hashSeed, history, bootVars>>

\* python main.py: load the environment, validate it, exit or launch chat.py
MainPy ==
    /\ pc = "start"
    /\ \E r \in {RunMain(environ, dotenv)} :
        /\ environ' = r.environ
        /\ console' = r.console
        /\ pc' = r.pc
    /\ entry' = "main.py"
    /\ UNCHANGED <<store, hashSeed, history, call, dotenv, chatManager, issued>>

\* chat.py started on its own, without main.py
StreamlitRun ==
    /\ pc = "start"
    /\ pc' = "launched"
    /\ entry' = "chat.py"
    /\ UNCHANGED <<store, hashSeed, history, call, environ, dotenv,
                   chatManager, console, issued>>

\* a run of the chat.py script up to the chat interface: the first run after
\* the launch, or a rerun of the page
ChatPy ==
    /\ pc \in {"launched", "stopped", "ready"}
    /\ Idle
    /\ \E index_exists \in (IF store = EmptyStore THEN BOOLEAN ELSE {TRUE}),
          fault \in InitFaults :
        \E r \in {InitializeChatManager(environ, dotenv, chatManager,
                                        index_exists, fault)} :
            /\ environ' = r.environ
            /\ chatManager' = r.chatManager
            /\ console' = r.console
            /\ issued' = issued \cup r.requests
            /\ pc' = IF r.ok THEN "ready" ELSE "stopped"
    /\ UNCHANGED <<store, hashSeed, history, call, dotenv, entry>>

\* a question typed into the chat interface
Ask ==
    /\ pc = "ready"
    /\ chatManager # None
    /\ SearchAndRespond

\* a configured process whose chat interface is up
Running ==
    /\ environ = [var \in CredVars |-> Str(<<"k">>)]
    /\ dotenv = [var \in CredVars |-> None]
    /\ pc = "ready"
    /\ entry = "main.py"
    /\ chatManager = [kind |-> "ChatManager"]
    /\ console = <<>>
    /\ issued = ChatManagerInit(environ, TRUE, "none").requests

Init ==
    /\ store = EmptyStore
    /\ hashSeed \in Seeds
    /\ history = [f \in Files |-> "never"]
    /\ call = NoCall
    /\ Running

Next ==
    \/ ProcessCsvFile
    \/ ProcessCsvFiles
    \/ SearchAndRespond
    \/ AddToKnowledgeBase
    \/ Restart
    \/ Return

Spec == Init /\ [][Next]_vars

\* ingestion alone, from an empty Vector Store
NextIngest ==
    \/ ProcessCsvFile
    \/ ProcessCsvFiles
    \/ Return

SpecIngest == Init /\ [][NextIngest]_vars

\* the chat application, over a Vector Store that is empty or holds file 1
InitChat ==
    /\ store \in {EmptyStore,
                  RunProcessCsvFile(EmptyStore, 1, "ok", NoFaults(1)).store}
    /\ hashSeed \in Seeds
    /\ history = [f \in Files |-> IF f = 1 /\ store # EmptyStore THEN "stored"
                                ELSE "never"]
    /\ call = NoCall
    /\ Running

NextChat ==
    \/ SearchAndRespond
    \/ AddToKnowledgeBase
    \/ Restart
    \/ Return

SpecChat == InitChat /\ [][NextChat]_vars

\* the start of the process, with any environment and .env file
InitStartup ==
    /\ store \in {EmptyStore,
                  RunProcessCsvFile(EmptyStore, 1, "ok", NoFaults(1)).store}
    /\ hashSeed \in Seeds
    /\ history = [f \in Files |-> IF f = 1 /\ store # EmptyStore THEN "stored"
                                ELSE "never"]
    /\ call = NoCall
    /\ environ \in [CredVars -> EnvValues]
    /\ dotenv \in [CredVars -> DotenvValues]
    /\ pc = "start"
    /\ entry = "none"
    /\ chatManager = None
    /\ console = <<>>
    /\ issued = {}

NextStartup ==
    \/ MainPy
    \/ StreamlitRun
    \/ ChatPy
    \/ Ask
    \/ Return

SpecStartup == InitStartup /\ [][NextStartup]_vars

(***************************************************************************)
(* Ingestion properties (checked under SpecIngest)                         *)
(***************************************************************************)
\* the Vector Store id of row i (1-based) of file f
RowId(f, i) == <<FileName(f), i - 1>>

Logged(ev) == \E k \in 1..Len(call.log) : call.log[k] = ev

Requested(about) ==
    \E k \in 1..Len(call.requests) : call.requests[k].about = about

FileCall == call.op = "process_csv_file"

C7_RowFailureIsolated ==
    (FileCall /\ call.env.kind = "ok") =>
        LET f == call.args.file
            ok == {i \in TextRows(f) : call.env.faults[i] = "none"}
        IN  /\ call.outcome = "returned"
            /\ \A i \in ok :
                 /\ Logged(Ev("info", "processed", FilePath(f), i - 1))
                 /\ Requested(<<FilePath(f), i - 1>>)
                 /\ RowId(f, i) \in DOMAIN store
                 /\ store[RowId(f, i)].values
                      = Embed(RowText(FileColumns(f), FileRows(f)[i]))
            /\ \A i \in TextRows(f) \ ok :
                 /\ Logged(Ev("error", call.env.faults[i], FilePath(f), i - 1))
                 /\ RowId(f, i) \in DOMAIN store
                      <=> RowId(f, i) \in DOMAIN call.before
            /\ \A id \in DOMAIN call.before :
                 /\ id \in DOMAIN store
                 /\ id \notin {RowId(f, i) : i \in ok} => store[id] = call.before[id]

C7_Witness ==
    /\ FileCall
    /\ call.args.file = 1
    /\ call.env.kind = "ok"
    /\ call.env.faults[1] = "embed"
    /\ call.env.faults[3] = "none"
    /\ call.outcome = "returned"
    /\ RowId(1, 1) \in DOMAIN call.before
    /\ RowId(1, 3) \notin DOMAIN call.before
    /\ RowId(1, 3) \in DOMAIN store

DirCall == call.op = "process_csv_files" /\ call.env.listing # <<>>

\* position in the listing of the first file that does not decode
FirstRaise(listing, kinds) ==
    IF \E i \in 1..Len(listing) : kinds[listing[i]] = "undecodable"
    THEN CHOOSE i \in 1..Len(listing) :
            /\ kinds[listing[i]] = "undecodable"
            /\ \A j \in 1..(i - 1) : kinds[listing[j]] # "undecodable"
    ELSE Len(listing) + 1

SearchCall == call.op = "search_and_respond"

Answered == SearchCall /\ call.outcome = "returned"

\* the scores of the first n matches, added up
RECURSIVE ScoreTotal(_, _)
ScoreTotal(matches, n) ==
    IF n = 0 THEN 0 ELSE matches[n].score + ScoreTotal(matches, n - 1)

\* C2: when no external call fails, search_and_respond returns a response
\* whose sources number exactly min(top_k, records in the Vector Store),
\* never more than top_k, and none for an empty store.
C2_SourcesLength ==
    (SearchCall /\ call.env.fault = "none") =>
        /\ call.outcome = "returned"
        /\ call.value.kind = "ChatResponse"
        /\ Len(call.value.sources)
             = Min(call.args.top_k, GetArticleCount(store))
        /\ Len(call.value.sources) <= call.args.top_k
        /\ store = EmptyStore => call.value.sources = <<>>

C2_Witness ==
    /\ Answered
    /\ call.args.top_k = 3
    /\ GetArticleCount(store) = 2
    /\ Len(call.value.sources) = 2
    /\ \E i \in 1..2 : call.value.sources[i].text = <<>>

\* C3: the confidence of a response is the sum of the scores of the matches
\* the Vector Store returned for the call divided by their number, and 0
\* when there are no matches.
C3_ConfidenceIsMean ==
    Answered =>
        LET m == call.env.matches
            c == call.value.confidence
        IN  /\ c.den > 0
            /\ IF Len(m) = 0 THEN c.num = 0
               ELSE c.num * Len(m) = ScoreTotal(m, Len(m)) * c.den

\* scores 0.95 and 0.82 give confidence 0.885
C3_Witness ==
    /\ Answered
    /\ Len(call.env.matches) = 2
    /\ call.env.matches[1].score = 95
    /\ call.env.matches[2].score = 82
    /\ call.value.confidence.num * 10 = 885 * call.value.confidence.den

\* C4, as stated: the confidence of a response lies in [0, 1].
C4_ConfidenceInUnitInterval ==
    Answered =>
        /\ call.value.confidence.den > 0
        /\ 0 <= call.value.confidence.num
        /\ call.value.confidence.num <= 100 * call.value.confidence.den

\* C4, amended: the confidence of a response lies in [-1, 1], the range of
\* the scores, and in [0, 1] when no retrieved score is negative.
C4_ConfidenceInScoreRange ==
    Answered =>
        LET c == call.value.confidence
            m == call.env.matches
        IN  /\ c.den > 0
            /\ -100 * c.den <= c.num
            /\ c.num <= 100 * c.den
            /\ (\A i \in 1..Len(m) : m[i].score >= 0) => 0 <= c.num

C4_Witness ==
    /\ Answered
    /\ Len(call.env.matches) = 2
    /\ call.env.matches[1].score = -50
    /\ call.env.matches[2].score = -50
    /\ call.value.confidence.num = -50 * call.value.confidence.den

\* C5: the i-th source comes from the i-th match: it carries that match's
\* score and text, and its metadata is the match's metadata without the
\* "text" key; the sources' scores do not increase along the list.
C5_SourcesFollowMatches ==
    Answered =>
        LET m == call.env.matches
            src == call.value.sources
        IN  /\ Len(src) = Len(m)
            /\ \A i \in 1..Len(m) :
                 /\ src[i].score = m[i].score
                 /\ src[i].text = m[i].metadata.text
                 /\ DOMAIN src[i].metadata = (DOMAIN m[i].metadata) \ {"text"}
                 /\ \A k \in DOMAIN src[i].metadata :
                        src[i].metadata[k] = m[i].metadata[k]
                 /\ m[i].metadata = store[m[i].id].metadata
            /\ \A i \in 1..Len(src) :
                 i < Len(src) => src[i].score >= src[i + 1].score

C5_Witness ==
    /\ Answered
    /\ Len(call.value.sources) = 2
    /\ call.value.sources[1].score > call.value.sources[2].score
    /\ call.value.sources[1].text = <<"a", " ", "b">>
    /\ DOMAIN call.value.sources[1].metadata
         = {"source_file", "row_index", "title", "body"}
    /\ call.value.sources[2].text = <<"x">>
    /\ DOMAIN call.value.sources[2].metadata = {"topic"}

\* C6: if embedding the query, querying the Vector Store or generating the
\* answer fails, search_and_respond raises and returns no response; it
\* returns a response only when none of them fails, and asks nothing more of
\* the services after the failure.
C6_FailurePropagates ==
    SearchCall =>
        /\ call.env.fault # "none" =>
              /\ call.outcome = "raised"
              /\ call.value = None
        /\ call.env.fault = "none" =>
              /\ call.outcome = "returned"
              /\ call.value.kind = "ChatResponse"
        /\ call.env.fault = "embed" => Len(call.requests) = 1
        /\ call.env.fault = "query" => Len(call.requests) = 2

C6_Witness ==
    /\ SearchCall
    /\ call.env.fault = "generate"
    /\ Len(call.env.matches) = 2
    /\ call.outcome = "raised"
    /\ call.value = None

AddCall == call.op = "add_to_knowledge_base"

\* C10: however often a text is added, and across runs of the process, the
\* Vector Store holds one record for it: an add of a text that is already
\* stored leaves the record count as it was.
C10_OneRecordPerText ==
    /\ \A input \in KbInputs :
          Cardinality({id \in DOMAIN store :
                          store[id].metadata.text = input.text}) <= 1
    /\ (AddCall /\ call.prior = "stored")
          => GetArticleCount(store) = GetArticleCount(call.before)

\* C11: add_to_knowledge_base never skips silently.  If the embedding request
\* fails the call raises, no upsert is requested and the Vector Store is as it
\* was before the call; if the upsert fails the call raises too; the call
\* returns normally only when neither failed.
C11_AddFailurePropagates ==
    AddCall =>
        /\ call.env.fault = "embed" =>
              /\ call.outcome = "raised"
              /\ call.requests = <<Req("embed", call.args.text)>>
              /\ \A k \in 1..Len(call.requests) :
                     call.requests[k].service # "upsert"
              /\ store = call.before
        /\ call.env.fault = "upsert" =>
              /\ call.outcome = "raised"
              /\ call.requests[Len(call.requests)].service = "upsert"
        /\ call.outcome = "returned" => call.env.fault = "none"

C11_Witness ==
    /\ AddCall
    /\ call.args.text = <<"x">>
    /\ call.env.fault = "embed"
    /\ call.outcome = "raised"
    /\ call.before # EmptyStore
    /\ store = call.before
    /\ Len(call.requests) = 1

\* the document blocks of the prompt the Answer Model answered
PromptBlocks == call.value.answer.reply_to.context

\* C12: the prompt renders each match with non-empty text as one block
\* "Document N:" followed by the match's text, N being the match's 1-based
\* rank; the blocks appear in increasing rank whatever the metadata hold; a
\* match with empty text has no block and its number is not reused.
C12_PromptKeepsRank ==
    Answered =>
        LET m == call.env.matches
            blocks == PromptBlocks
        IN  /\ \A k \in 1..Len(blocks) :
                 /\ blocks[k].document \in 1..Len(m)
                 /\ blocks[k].text = m[blocks[k].document].metadata.text
                 /\ blocks[k].text # <<>>
            /\ \A k \in 1..Len(blocks) :
                 k < Len(blocks) => blocks[k].document < blocks[k + 1].document
            /\ \A i \in 1..Len(m) :
                 (m[i].metadata.text # <<>>)
                   <=> (\E k \in 1..Len(blocks) : blocks[k].document = i)

\* three matches, the second with empty text: blocks Document 1 and Document 3
C12_Witness ==
    /\ Answered
    /\ Len(call.env.matches) = 3
    /\ call.env.matches[1].metadata.text = <<"x">>
    /\ call.env.matches[2].metadata.text = <<>>
    /\ call.env.matches[3].metadata.text = <<"a", " ", "b">>
    /\ Len(PromptBlocks) = 2
    /\ PromptBlocks[1] = [document |-> 1, text |-> <<"x">>]
    /\ PromptBlocks[2] = [document |-> 3, text |-> <<"a", " ", "b">>]

(***************************************************************************)
(* Startup properties (checked under SpecStartup)                          *)
(***************************************************************************)
\* the credentials the process cannot read once the .env file is loaded
MissingCredentials ==
    {var \in CredVars : Falsy(Getenv(LoadDotenv(environ, dotenv), var))}

Reported(what, var) ==
    \E k \in 1..Len(console) :
        console[k].what = what /\ console[k].var = var

\* C13: when a required credential is missing, no ChatManager is constructed,
\* no request goes to the Embedding Provider, the Vector Store or the Answer
\* Model and the chat interface never comes up; a process started with
\* main.py has named every missing credential and exited once main has run,
\* and chat.py is never launched.
C13_ConfigErrorFatal ==
    MissingCredentials # {} =>
        /\ chatManager = None
        /\ issued = {}
        /\ call = NoCall
        /\ pc \in {"start", "exited", "launched", "stopped"}
        /\ entry = "main.py" =>
              /\ pc = "exited"
              /\ Reported("missing_header", None)
              /\ \A var \in CredVars :
                    Reported("missing_var", var) <=> var \in MissingCredentials
        /\ pc = "launched" => entry = "chat.py"
        /\ pc = "stopped" =>
              \E k \in 1..Len(console) : console[k].what = "st_error_missing"

\* the environment holds an empty GEMINI_API_KEY, which the .env file does
\* not replace: main.py names it and exits
C13_Witness ==
    /\ entry = "main.py"
    /\ pc = "exited"
    /\ environ["GEMINI_API_KEY"] = Str(<<>>)
    /\ dotenv["GEMINI_API_KEY"] = Str(<<"k">>)
    /\ environ["PINECONE_API_KEY"] = Str(<<"k">>)
    /\ environ["PINECONE_ENVIRONMENT"] = Str(<<"k">>)
    /\ console = <<Out("missing_header", None),
                   Out("missing_var", "GEMINI_API_KEY"),
                   Out("env_file_hint", None)>>
    /\ chatManager = None
    /\ issued = {}

====
